---- MODULE Spec2Model ----
(***************************************************************************)
(* Model of src/app.py: the in-memory race simulation (grid, simulation    *)
(* flag, tick counter, last-tick timestamp, load timestamp) guarded by     *)
(* _state_lock, and the request handlers /positions, /sim/status,          *)
(* /sim/start, /sim/stop and /sim/reset run by concurrent worker threads.  *)
(*                                                                         *)
(* Every `with _state_lock:` block is two steps: the acquisition (label    *)
(* *_lock) and the body with the release (the label after it).  The swap   *)
(* loop of a tick runs one swap per step while the lock is held.  Code     *)
(* outside the lock (the provider fetch, the draw of the swap count) is a  *)
(* step of its own.  time.monotonic() and utc_iso_now() both read the      *)
(* clock `now`, which advances between steps.  A response is kept as its    *)
(* status and, for /positions, its order; the informational fields of the  *)
(* admin answers are left out.  The variables reads .. afterReset and       *)
(* boundary, applied, loaded record history for the properties and are     *)
(* never read by an action of a handler, except reads and admins, which    *)
(* bound the requests made.                                                *)
(***************************************************************************)
EXTENDS Integers, Sequences, FiniteSets, TLC

\* ------------------------------------------------------------------ bounds
NumThreads == 2
MaxTime == 6
MaxTimeSerial == 11
MaxReads == 3
MaxAdmin == 2
MaxAdminSerial == 3
MaxReadsSmall == 2
MaxAdminSmall == 1

\* --------------------------------------------------------- program constants
TICK_SECONDS == 5
MinGrid == 8
NeverTicked == 0
NotLoaded == 0

Threads == 1..NumThreads
\* The clock moves in strides just short of, or equal to, the tick interval.
ClockSteps == {TICK_SECONDS - 1, TICK_SECONDS}

\* The configured secret; "" is an unset ADMIN_TOKEN.
AdminTokens == {"", "secret"}
\* The X-Admin-Token header of a request; "" is a missing header.
HeaderTokens == {"", "secret", "wrong"}

\* What the roster provider can return: a failure, or a de-duplicated list.
RosterA == <<"A", "B", "C", "D", "E", "F", "G", "H">>
RosterB == <<"J", "A", "B", "C", "D", "E", "F", "G", "I">>
RosterShort == <<"A", "B", "C", "D", "E", "F", "G">>
FetchFailed == <<"!">>
FetchOutcomes == {RosterA, RosterB, RosterShort, FetchFailed}

SwapCountsWide == {0, 1, 2, 3}
SwapCounts == {0, 1, 2}

VARIABLES
  now,                      \* the clock read by time.monotonic() / utc_iso_now()
  serial,                   \* TRUE when clients send one request at a time
  small,                    \* TRUE when clients send few requests (progress runs)
  ADMIN_TOKEN,              \* the configured secret
  state_lock,               \* 0 when free, else the thread holding _state_lock
  sim_on,
  grid,
  last_tick_monotonic,
  tick_count,
  last_grid_loaded_at_utc,
  pc,                       \* per thread: where its handler stands
  op,                       \* per thread: the route it serves
  codes,                    \* per thread: ensure_grid_loaded's local `codes`
  swaps,                    \* per thread: the swaps its tick still has to apply
  resp,                     \* per thread: the response it returns
  reads,                    \* number of /positions requests made so far
  admins,                   \* number of accepted start/stop/reset requests so far
  seen,                     \* per thread: the timestamp its interval check compared
  lastIncAt,                \* clock at the latest increment of tick_count (0: none)
  fresh,                    \* serial runs: a start succeeded, no advance call since
  afterReset,               \* serial runs: a reset succeeded, no advance call since
  x_admin_token,            \* per thread: the X-Admin-Token header of its request
  boundary,                 \* the grid as the last whole reload or whole tick left it
  applied,                  \* per thread: the swaps its tick has applied so far
  loaded                    \* the roster of the latest reload applied to the grid

shared == <<sim_on, grid, last_tick_monotonic, tick_count, last_grid_loaded_at_utc>>
locals == <<pc, op, codes, swaps, resp, x_admin_token>>
history == <<reads, admins, seen, lastIncAt, fresh, afterReset>>
aux == <<boundary, applied, loaded>>
vars == <<now, serial, small, ADMIN_TOKEN, state_lock, shared, locals, history, aux>>

\* A response: its status (or HTTP error code) and the order of /positions.
NoResp == [status |-> "", order |-> <<>>]
Resp(s, o) == [status |-> s, order |-> o]

Min(a, b) == IF a < b THEN a ELSE b

\* ---------------------------------------------------------- pure functions

\* The check that looks at the header before the configured secret.
RequireAdminTokenHeaderFirst(secret, token) ==
  IF token = "" THEN 401
  ELSE IF secret = "" THEN 500
  ELSE IF token # secret THEN 403
  ELSE 0

\* _require_admin_token: 0 when the request may proceed, else the status code.
RequireAdminToken(secret, token) ==
  IF secret = "" THEN 500
  ELSE IF token = "" THEN 401
  ELSE IF token # secret THEN 403
  ELSE 0

\* ensure_grid_loaded, line 126.
NeedAlways(force_reload, g) == TRUE
NeedOnlyForced(force_reload, g) == force_reload
Need(force_reload, g) == force_reload \/ Len(g) < MinGrid

\* ensure_grid_loaded, lines 130-132: the fetch succeeded with enough codes.
RosterOkLoose(c) == c # FetchFailed
RosterOk(c) == c # FetchFailed /\ Len(c) >= MinGrid

\* Every caller forcing the reload.
ForceReloadAlways(o) == TRUE

\* force_reload as passed by each caller of ensure_grid_loaded.
ForceReload(o) == o = "reset"

\* Where a handler goes when ensure_grid_loaded returns normally.
AfterLoad(o) ==
  CASE o = "positions" -> "tick_lock1"
    [] o = "start" -> "start_lock"
    [] OTHER -> "reset_lock"

\* The except clauses around ensure_grid_loaded: the response of a failed load.
LoadFailureStatusOk(o) == IF o = "positions" THEN "error" ELSE "ok"
LoadFailureStatus(o) == IF o = "positions" THEN "error" ELSE "500"

\* Every index that has a right neighbour, the leader's included.
CandidateIndicesFromZero(n) == 0..(n - 2)

\* Indices (0-based) a swap may pick for a grid of length n, lines 172-188.
CandidateIndices(n) ==
  IF n <= 3 THEN 0..(n - 2)
  ELSE {Min(i, n - 2) : i \in 1..(n - 2)}

\* An exchange that loses the left entry.
SwapAtOverwrite(g, i) == [g EXCEPT ![i + 1] = g[i + 2]]

\* Line 190 for a 0-based index i: exchange entries i and i+1.
SwapAt(g, i) == [g EXCEPT ![i + 1] = g[i + 2], ![i + 2] = g[i + 1]]

\* top8_order_payload, lines 198-199.
Top8(g) == SubSeq(g, 1, Min(8, Len(g)))
Payload(top) == [k \in 1..Len(top) |-> [position |-> k, driver |-> top[k]]]

\* The interval gate of perform_lazy_tick_if_needed, line 155.
TooEarlyOffByOne(t, last) == (t - last) <= TICK_SECONDS
TooEarly(t, last) == (t - last) < TICK_SECONDS

\* Serial runs are explored further than concurrent ones.
TimeBound == IF serial THEN MaxTimeSerial ELSE MaxTime
AdminBound == IF serial THEN MaxAdminSerial ELSE IF small THEN MaxAdminSmall ELSE MaxAdmin
ReadBound == IF small THEN MaxReadsSmall ELSE MaxReads

\* In serial runs a request begins only when no other request is in progress.
MayBegin(t) ==
  /\ pc[t] = "idle"
  /\ serial => \A u \in Threads : pc[u] = "idle"

\* ------------------------------------------------------------------ states
InitCommon ==
  /\ now = 1
  /\ ADMIN_TOKEN \in AdminTokens
  /\ state_lock = 0
  /\ sim_on = FALSE
  /\ grid = <<>>
  /\ last_tick_monotonic = NeverTicked
  /\ tick_count = 0
  /\ last_grid_loaded_at_utc = NotLoaded
  /\ pc = [t \in Threads |-> "idle"]
  /\ op = [t \in Threads |-> ""]
  /\ codes = [t \in Threads |-> <<>>]
  /\ swaps = [t \in Threads |-> 0]
  /\ resp = [t \in Threads |-> NoResp]
  /\ reads = 0
  /\ admins = 0
  /\ seen = [t \in Threads |-> 0]
  /\ lastIncAt = 0
  /\ fresh = FALSE
  /\ afterReset = FALSE
  /\ x_admin_token = [t \in Threads |-> ""]
  /\ boundary = <<>>
  /\ applied = [t \in Threads |-> 0]
  /\ loaded = <<>>

Init == InitCommon /\ serial = FALSE /\ small = FALSE
InitSerial == InitCommon /\ serial = TRUE /\ small = FALSE
InitSmall == InitCommon /\ serial = FALSE /\ small = TRUE

\* ----------------------------------------------------------------- actions

\* Time passes.
ClockAdvance ==
  /\ \E d \in ClockSteps :
       /\ now + d <= TimeBound
       /\ now' = now + d
  /\ UNCHANGED <<serial, small, ADMIN_TOKEN, state_lock, shared, locals, history, aux>>

\* `with _state_lock:` entered by thread t standing at `from`.
Acquire(t, from, to) ==
  /\ pc[t] = from
  /\ state_lock = 0
  /\ state_lock' = t
  /\ pc' = [pc EXCEPT ![t] = to]
  /\ UNCHANGED <<now, serial, small, ADMIN_TOKEN, x_admin_token, aux, shared, op, codes, swaps, resp, history>>

\* A request on an admin route: the credential check, then the first step.
BeginAdmin(t, o, first) ==
  /\ MayBegin(t)
  /\ \E token \in HeaderTokens :
       LET code == RequireAdminToken(ADMIN_TOKEN, token) IN
       /\ IF code # 0
          THEN /\ pc' = [pc EXCEPT ![t] = "done"]
               /\ resp' = [resp EXCEPT ![t] = Resp(ToString(code), <<>>)]
               /\ admins' = admins
          ELSE /\ o # "status" => admins < AdminBound
               /\ pc' = [pc EXCEPT ![t] = first]
               /\ resp' = [resp EXCEPT ![t] = NoResp]
               /\ admins' = IF o = "status" THEN admins ELSE admins + 1
       /\ x_admin_token' = [x_admin_token EXCEPT ![t] = token]
  /\ op' = [op EXCEPT ![t] = o]
  /\ codes' = [codes EXCEPT ![t] = <<>>]
  /\ UNCHANGED <<now, serial, small, ADMIN_TOKEN, aux, state_lock, shared, swaps,
                 reads, seen, lastIncAt, fresh, afterReset>>

\* ---- GET /positions
BeginPositions(t) ==
  /\ MayBegin(t)
  /\ reads < ReadBound
  /\ reads' = reads + 1
  /\ pc' = [pc EXCEPT ![t] = "pos_lock"]
  /\ op' = [op EXCEPT ![t] = "positions"]
  /\ codes' = [codes EXCEPT ![t] = <<>>]
  /\ resp' = [resp EXCEPT ![t] = NoResp]
  /\ UNCHANGED <<now, serial, small, ADMIN_TOKEN, x_admin_token, aux, state_lock, shared, swaps,
                 admins, seen, lastIncAt, fresh, afterReset>>

PositionsLock(t) == Acquire(t, "pos_lock", "pos_read")

\* Lines 218-226: read the flag, release, answer not_live when it is off.
PositionsSeesOnAlways(on) == TRUE
PositionsSeesOn(on) == on

PositionsRead(t) ==
  /\ pc[t] = "pos_read"
  /\ state_lock' = 0
  /\ IF PositionsSeesOn(sim_on)
     THEN /\ pc' = [pc EXCEPT ![t] = "egl_lock1"]
          /\ resp' = resp
     ELSE /\ pc' = [pc EXCEPT ![t] = "done"]
          /\ resp' = [resp EXCEPT ![t] = Resp("not_live", <<>>)]
  /\ UNCHANGED <<now, serial, small, ADMIN_TOKEN, x_admin_token, aux, shared, op, codes, swaps, history>>

\* ---- ensure_grid_loaded
EnsureLock1(t) == Acquire(t, "egl_lock1", "egl_need")

\* The need decided and the lock kept into the fetch.
EnsureNeedKeepsLock(t) ==
  /\ pc[t] = "egl_need"
  /\ pc' = [pc EXCEPT ![t] =
              IF Need(ForceReload(op[t]), grid) THEN "egl_fetch" ELSE AfterLoad(op[t])]
  /\ UNCHANGED <<now, serial, small, ADMIN_TOKEN, x_admin_token, aux, state_lock, shared,
                 op, codes, swaps, resp, history>>

\* Lines 126-128.
EnsureNeed(t) ==
  /\ pc[t] = "egl_need"
  /\ state_lock' = 0
  /\ pc' = [pc EXCEPT ![t] =
              IF Need(ForceReload(op[t]), grid) THEN "egl_fetch" ELSE AfterLoad(op[t])]
  /\ UNCHANGED <<now, serial, small, ADMIN_TOKEN, x_admin_token, aux, shared, op, codes, swaps, resp, history>>

\* Lines 130-132 and the caller's except clause: the provider answers.
EnsureFetch(t) ==
  /\ pc[t] = "egl_fetch"
  /\ \E c \in FetchOutcomes :
       IF RosterOk(c)
       THEN /\ codes' = [codes EXCEPT ![t] = c]
            /\ pc' = [pc EXCEPT ![t] = "egl_lock2"]
            /\ resp' = resp
       ELSE /\ codes' = codes
            /\ pc' = [pc EXCEPT ![t] = "done"]
            /\ resp' = [resp EXCEPT ![t] = Resp(LoadFailureStatus(op[t]), <<>>)]
  /\ UNCHANGED <<now, serial, small, ADMIN_TOKEN, x_admin_token, aux, state_lock, shared, op, swaps, history>>

EnsureLock2(t) == Acquire(t, "egl_lock2", "egl_apply")

\* Lines 135-136.
EnsureApply(t) ==
  /\ pc[t] = "egl_apply"
  /\ grid' = codes[t]
  /\ last_grid_loaded_at_utc' = now
  /\ state_lock' = 0
  /\ pc' = [pc EXCEPT ![t] = AfterLoad(op[t])]
  /\ boundary' = codes[t]
  /\ loaded' = codes[t]
  /\ UNCHANGED <<now, serial, small, ADMIN_TOKEN, x_admin_token, applied, sim_on, last_tick_monotonic, tick_count,
                 op, codes, swaps, resp, history>>

\* ---- perform_lazy_tick_if_needed
TickLock1(t) == Acquire(t, "tick_lock1", "tick_check")

\* The check whose early returns leave the lock held.
TickCheckLeaky(t) ==
  /\ pc[t] = "tick_check"
  /\ IF ~sim_on
     THEN /\ pc' = [pc EXCEPT ![t] = "top8_lock"]
          /\ UNCHANGED <<last_tick_monotonic, seen, state_lock>>
     ELSE IF last_tick_monotonic = NeverTicked
     THEN /\ last_tick_monotonic' = now
          /\ pc' = [pc EXCEPT ![t] = "top8_lock"]
          /\ UNCHANGED <<seen, state_lock>>
     ELSE IF TooEarly(now, last_tick_monotonic)
     THEN /\ pc' = [pc EXCEPT ![t] = "top8_lock"]
          /\ UNCHANGED <<last_tick_monotonic, seen, state_lock>>
     ELSE /\ pc' = [pc EXCEPT ![t] = "tick_choose"]
          /\ seen' = [seen EXCEPT ![t] = last_tick_monotonic]
          /\ last_tick_monotonic' = last_tick_monotonic
          /\ state_lock' = 0
  /\ fresh' = FALSE
  /\ afterReset' = FALSE
  /\ UNCHANGED <<now, serial, small, ADMIN_TOKEN, x_admin_token, aux, sim_on, grid, tick_count,
                 last_grid_loaded_at_utc, op, codes, swaps, resp,
                 reads, admins, lastIncAt>>

\* Lines 147-156: the flag, the baseline and the interval gate, then the release.
TickCheck(t) ==
  /\ pc[t] = "tick_check"
  /\ state_lock' = 0
  /\ IF ~sim_on
     THEN /\ pc' = [pc EXCEPT ![t] = "top8_lock"]
          /\ UNCHANGED <<last_tick_monotonic, seen>>
     ELSE IF last_tick_monotonic = NeverTicked
     THEN /\ last_tick_monotonic' = now
          /\ pc' = [pc EXCEPT ![t] = "top8_lock"]
          /\ seen' = seen
     ELSE IF TooEarly(now, last_tick_monotonic)
     THEN /\ pc' = [pc EXCEPT ![t] = "top8_lock"]
          /\ UNCHANGED <<last_tick_monotonic, seen>>
     ELSE /\ pc' = [pc EXCEPT ![t] = "tick_choose"]
          /\ seen' = [seen EXCEPT ![t] = last_tick_monotonic]
          /\ last_tick_monotonic' = last_tick_monotonic
  /\ fresh' = FALSE
  /\ afterReset' = FALSE
  /\ UNCHANGED <<now, serial, small, ADMIN_TOKEN, x_admin_token, aux, sim_on, grid, tick_count,
                 last_grid_loaded_at_utc, op, codes, swaps, resp,
                 reads, admins, lastIncAt>>

\* Line 160: the number of swaps, drawn outside the lock (every weight is positive).
TickChoose(t) ==
  /\ pc[t] = "tick_choose"
  /\ \E s \in SwapCounts : swaps' = [swaps EXCEPT ![t] = s]
  /\ pc' = [pc EXCEPT ![t] = "tick_lock2"]
  /\ UNCHANGED <<now, serial, small, ADMIN_TOKEN, x_admin_token, aux, state_lock, shared, op, codes, resp, history>>

TickLock2(t) == Acquire(t, "tick_lock2", "tick_apply")

\* Lines 167-190: one iteration of the swap loop, the lock held.
TickSwap(t) ==
  /\ pc[t] = "tick_apply"
  /\ Len(grid) >= 2
  /\ swaps[t] > 0
  /\ \E i \in CandidateIndices(Len(grid)) : grid' = SwapAt(grid, i)
  /\ swaps' = [swaps EXCEPT ![t] = swaps[t] - 1]
  /\ applied' = [applied EXCEPT ![t] = applied[t] + 1]
  /\ UNCHANGED <<now, serial, small, ADMIN_TOKEN, x_admin_token, boundary, loaded, state_lock, sim_on, last_tick_monotonic,
                 tick_count, last_grid_loaded_at_utc, pc, op, codes, resp, history>>

\* Lines 163-165 (a grid too short to swap) or 192-193 (the loop is over).
TickFinish(t) ==
  /\ pc[t] = "tick_apply"
  /\ Len(grid) < 2 \/ swaps[t] = 0
  /\ IF Len(grid) < 2
     THEN UNCHANGED <<tick_count, last_tick_monotonic, lastIncAt>>
     ELSE /\ tick_count' = tick_count + 1
          /\ last_tick_monotonic' = now
          /\ lastIncAt' = now
  /\ swaps' = [swaps EXCEPT ![t] = 0]
  /\ state_lock' = 0
  /\ pc' = [pc EXCEPT ![t] = "top8_lock"]
  /\ boundary' = grid
  /\ applied' = [applied EXCEPT ![t] = 0]
  /\ UNCHANGED <<now, serial, small, ADMIN_TOKEN, x_admin_token, loaded, sim_on, grid, last_grid_loaded_at_utc,
                 op, codes, resp, reads, admins, seen, fresh, afterReset>>

\* ---- top8_order_payload and the "live" answer of /positions
\* The snapshot taken without waiting for the lock.
Top8LockNoMutex(t) ==
  /\ pc[t] = "top8_lock"
  /\ pc' = [pc EXCEPT ![t] = "top8_read"]
  /\ UNCHANGED <<now, serial, small, ADMIN_TOKEN, x_admin_token, aux, state_lock, shared,
                 op, codes, swaps, resp, history>>

Top8Lock(t) == Acquire(t, "top8_lock", "top8_read")

Top8Read(t) ==
  /\ pc[t] = "top8_read"
  /\ state_lock' = 0
  /\ resp' = [resp EXCEPT ![t] = Resp("live", Payload(Top8(grid)))]
  /\ pc' = [pc EXCEPT ![t] = "done"]
  /\ UNCHANGED <<now, serial, small, ADMIN_TOKEN, x_admin_token, aux, shared, op, codes, swaps, history>>

\* ---- GET /sim/status
BeginStatus(t) == BeginAdmin(t, "status", "status_lock")

StatusLock(t) == Acquire(t, "status_lock", "status_read")

StatusRead(t) ==
  /\ pc[t] = "status_read"
  /\ state_lock' = 0
  /\ resp' = [resp EXCEPT ![t] = Resp("ok", <<>>)]
  /\ pc' = [pc EXCEPT ![t] = "done"]
  /\ UNCHANGED <<now, serial, small, ADMIN_TOKEN, x_admin_token, aux, shared, op, codes, swaps, history>>

\* ---- POST /sim/start
BeginStart(t) == BeginAdmin(t, "start", "egl_lock1")

StartLock(t) == Acquire(t, "start_lock", "start_set")

\* Lines 280-282.
StartSet(t) ==
  /\ pc[t] = "start_set"
  /\ sim_on' = TRUE
  /\ state_lock' = 0
  /\ resp' = [resp EXCEPT ![t] = Resp("ok", <<>>)]
  /\ pc' = [pc EXCEPT ![t] = "done"]
  /\ fresh' = serial
  /\ UNCHANGED <<now, serial, small, ADMIN_TOKEN, x_admin_token, aux, grid, last_tick_monotonic, tick_count,
                 last_grid_loaded_at_utc, op, codes, swaps,
                 reads, admins, seen, lastIncAt, afterReset>>

\* ---- POST /sim/stop
BeginStop(t) == BeginAdmin(t, "stop", "stop_lock")

StopLock(t) == Acquire(t, "stop_lock", "stop_set")

\* A stop that also zeroes the tick counter, as a reset does.
StopSetAndClear(t) ==
  /\ pc[t] = "stop_set"
  /\ sim_on' = FALSE
  /\ tick_count' = 0
  /\ state_lock' = 0
  /\ resp' = [resp EXCEPT ![t] = Resp("ok", <<>>)]
  /\ pc' = [pc EXCEPT ![t] = "done"]
  /\ UNCHANGED <<now, serial, small, ADMIN_TOKEN, x_admin_token, aux, grid, last_tick_monotonic,
                 last_grid_loaded_at_utc, op, codes, swaps, history>>

\* Lines 290-291.
StopSet(t) ==
  /\ pc[t] = "stop_set"
  /\ sim_on' = FALSE
  /\ state_lock' = 0
  /\ resp' = [resp EXCEPT ![t] = Resp("ok", <<>>)]
  /\ pc' = [pc EXCEPT ![t] = "done"]
  /\ UNCHANGED <<now, serial, small, ADMIN_TOKEN, x_admin_token, aux, grid, last_tick_monotonic, tick_count,
                 last_grid_loaded_at_utc, op, codes, swaps, history>>

\* ---- POST /sim/reset
BeginReset(t) == BeginAdmin(t, "reset", "egl_lock1")

ResetLock(t) == Acquire(t, "reset_lock", "reset_set")

\* Line 306: what reset writes to the last-tick timestamp.
ResetLastTickKept == last_tick_monotonic
ResetLastTick == NeverTicked

\* Lines 305-308.
ResetSet(t) ==
  /\ pc[t] = "reset_set"
  /\ tick_count' = 0
  /\ last_tick_monotonic' = ResetLastTick
  /\ state_lock' = 0
  /\ resp' = [resp EXCEPT ![t] = Resp("ok", <<>>)]
  /\ pc' = [pc EXCEPT ![t] = "done"]
  /\ afterReset' = serial
  /\ UNCHANGED <<now, serial, small, ADMIN_TOKEN, x_admin_token, aux, sim_on, grid, last_grid_loaded_at_utc,
                 op, codes, swaps, reads, admins, seen, lastIncAt, fresh>>

\* The response has been sent: the thread is free for the next request.
Return(t) ==
  /\ pc[t] = "done"
  /\ pc' = [pc EXCEPT ![t] = "idle"]
  /\ op' = [op EXCEPT ![t] = ""]
  /\ codes' = [codes EXCEPT ![t] = <<>>]
  /\ resp' = [resp EXCEPT ![t] = NoResp]
  /\ seen' = [seen EXCEPT ![t] = 0]
  /\ x_admin_token' = [x_admin_token EXCEPT ![t] = ""]
  /\ UNCHANGED <<now, serial, small, ADMIN_TOKEN, aux, state_lock, shared, swaps,
                 reads, admins, lastIncAt, fresh, afterReset>>

Next ==
  \/ ClockAdvance
  \/ \E t \in Threads :
       \/ BeginPositions(t)
       \/ PositionsLock(t)
       \/ PositionsRead(t)
       \/ EnsureLock1(t)
       \/ EnsureNeed(t)
       \/ EnsureFetch(t)
       \/ EnsureLock2(t)
       \/ EnsureApply(t)
       \/ TickLock1(t)
       \/ TickCheck(t)
       \/ TickChoose(t)
       \/ TickLock2(t)
       \/ TickSwap(t)
       \/ TickFinish(t)
       \/ Top8Lock(t)
       \/ Top8Read(t)
       \/ BeginStatus(t)
       \/ StatusLock(t)
       \/ StatusRead(t)
       \/ BeginStart(t)
       \/ StartLock(t)
       \/ StartSet(t)
       \/ BeginStop(t)
       \/ StopLock(t)
       \/ StopSet(t)
       \/ BeginReset(t)
       \/ ResetLock(t)
       \/ ResetSet(t)
       \/ Return(t)

Spec == Init /\ [][Next]_vars
SpecSerial == InitSerial /\ [][Next]_vars

\* The labels at which a thread is inside a `with _state_lock:` block.
InLock == {"pos_read", "egl_need", "egl_apply", "tick_check", "tick_apply",
           "top8_read", "status_read", "start_set", "stop_set", "reset_set"}

\* A step of the handler thread t is running (not the arrival of a request).
Step(t) ==
  \/ PositionsLock(t) \/ PositionsRead(t)
  \/ EnsureLock1(t) \/ EnsureNeed(t) \/ EnsureFetch(t)
  \/ EnsureLock2(t) \/ EnsureApply(t)
  \/ TickLock1(t) \/ TickCheck(t) \/ TickChoose(t)
  \/ TickLock2(t) \/ TickSwap(t) \/ TickFinish(t)
  \/ Top8Lock(t) \/ Top8Read(t)
  \/ StatusLock(t) \/ StatusRead(t)
  \/ StartLock(t) \/ StartSet(t)
  \/ StopLock(t) \/ StopSet(t)
  \/ ResetLock(t) \/ ResetSet(t)

\* Fair scheduling: a running handler keeps taking steps, the provider call
\* returns (its timeout at line 107), and a handler that finds the lock free
\* again and again gets it.
SpecFair == InitSmall /\ [][Next]_vars /\ \A t \in Threads : SF_vars(Step(t))
\* ------------------------------------------------------------------ claims

\* Thread t takes the step that ends its tick (lines 192-193).
TickCounted(t) == pc[t] = "tick_apply" /\ pc'[t] = "top8_lock" /\ Len(grid) >= 2
\* Thread t takes the step that runs its interval check (lines 147-156).
Checked(t) == pc[t] = "tick_check" /\ pc'[t] # "tick_check"

\* C1: of the reads that found the same last-tick timestamp old enough, exactly
\* one counts a tick: a read counts its tick only if no tick has been counted
\* since the timestamp its own check compared against.
C1_OneTickPerEligibleTimestamp ==
  [][\A t \in Threads : TickCounted(t) => lastIncAt <= seen[t]]_vars

\* C2: every step that swaps grid entries or increments the tick counter is
\* taken in a state where the simulation flag is on.
C2_TickOnlyWhileOn ==
  [][\A t \in Threads :
       (pc[t] = "tick_apply" /\ (grid' # grid \/ tick_count' # tick_count)) => sim_on]_vars

\* C3: the grid is empty or holds at least MinGrid entries, and once it holds
\* at least MinGrid entries it does so in every later state.
C3_GridFloor ==
  [][/\ Len(grid') = 0 \/ Len(grid') >= MinGrid
     /\ Len(grid) >= MinGrid => Len(grid') >= MinGrid]_vars

\* A reset failed on its reload while a grid was loaded.
C3_Witness ==
  \E t \in Threads :
    /\ op[t] = "reset" /\ pc[t] = "done" /\ resp[t].status = "500"
    /\ Len(grid) >= MinGrid

\* C4: whenever the simulation flag is on, the grid holds at least MinGrid entries.
C4_OnImpliesGrid == sim_on => Len(grid) >= MinGrid

\* A start has succeeded and the simulation is on.
C4_Witness ==
  \E t \in Threads :
    op[t] = "start" /\ pc[t] = "done" /\ resp[t].status = "ok" /\ sim_on

\* C5: the first advance call after a successful start performs no tick.
C5_FirstReadAfterStartDoesNotTick ==
  [][\A t \in Threads : (fresh /\ Checked(t)) => pc'[t] = "top8_lock"]_vars

\* C6: a successful reset zeroes the tick counter, clears the last-tick
\* timestamp and keeps the flag; both stay cleared until the next advance call,
\* which only records the clock as baseline: no swap, no increment.
C6_ResetSemantics ==
  [][/\ afterReset' => tick_count' = 0 /\ last_tick_monotonic' = NeverTicked
     /\ \A t \in Threads :
          /\ (pc[t] = "reset_set" /\ pc'[t] = "done") =>
               /\ tick_count' = 0
               /\ last_tick_monotonic' = NeverTicked
               /\ sim_on' = sim_on
               /\ afterReset'
          /\ (afterReset /\ Checked(t)) =>
               /\ last_tick_monotonic' = now
               /\ UNCHANGED <<grid, tick_count>>
               /\ pc'[t] = "top8_lock"]_vars

\* Ticks were counted, a reset cleared them, and the next read recorded a baseline.
C6_Witness ==
  /\ lastIncAt # 0
  /\ tick_count = 0
  /\ ~afterReset
  /\ last_tick_monotonic # NeverTicked
  /\ \E t \in Threads : op[t] = "positions" /\ pc[t] = "top8_lock"

\* C7: with the flag on and a timestamp recorded, an advance call earlier than
\* TICK_SECONDS after it changes nothing and one at or after TICK_SECONDS goes
\* on to tick; a tick adds one to the counter, records the clock, and comes at
\* least TICK_SECONDS after the previous counted tick.
C7_IntervalGate ==
  [][\A t \in Threads :
       /\ (Checked(t) /\ sim_on /\ last_tick_monotonic # NeverTicked) =>
            IF now - last_tick_monotonic < TICK_SECONDS
            THEN /\ UNCHANGED <<grid, tick_count, last_tick_monotonic>>
                 /\ pc'[t] = "top8_lock"
            ELSE pc'[t] = "tick_choose"
       /\ TickCounted(t) =>
            /\ tick_count' = tick_count + 1
            /\ last_tick_monotonic' = now
            /\ lastIncAt = 0 \/ now - lastIncAt >= TICK_SECONDS]_vars

\* After a counted tick, a read came too early and skipped.
C7_Witness ==
  /\ tick_count >= 1
  /\ last_tick_monotonic = lastIncAt
  /\ 0 < now - last_tick_monotonic /\ now - last_tick_monotonic < TICK_SECONDS
  /\ \E t \in Threads : op[t] = "positions" /\ pc[t] = "top8_lock" /\ seen[t] = 0

\* C8: a /positions read that finds the flag off answers not_live with an empty
\* order, without a provider call and without changing the shared state.
C8_IdleSkip ==
  [][\A t \in Threads :
       (op[t] = "positions" /\ pc[t] \in {"pos_lock", "pos_read"}
          /\ ~sim_on /\ pc'[t] # pc[t]) =>
         /\ UNCHANGED shared
         /\ pc[t] = "pos_lock" => pc'[t] = "pos_read"
         /\ pc[t] = "pos_read" =>
              pc'[t] = "done" /\ resp'[t] = [status |-> "not_live", order |-> <<>>]]_vars

\* Every thread has answered not_live while the simulation is off.
C8_Witness ==
  /\ ~sim_on
  /\ \A t \in Threads :
       op[t] = "positions" /\ pc[t] = "done" /\ resp[t].status = "not_live"

C10_FailedReloadChangesNothing ==
  [][\A t \in Threads : op[t] \in {"start", "reset"} =>
       /\ (pc[t] \in {"egl_lock1", "egl_need"} /\ pc'[t] # pc[t]) => UNCHANGED shared
       /\ (pc[t] = "egl_fetch" /\ pc'[t] # "egl_fetch") =>
            IF pc'[t] = "egl_lock2"
            THEN codes'[t] # FetchFailed /\ Len(codes'[t]) >= MinGrid
            ELSE /\ pc'[t] = "done"
                 /\ resp'[t].status = "500"
                 /\ UNCHANGED shared]_vars

\* A start failed on its load and the simulation is still off.
C10_Witness ==
  \E t \in Threads :
    /\ op[t] = "start" /\ pc[t] = "done" /\ resp[t].status = "500"
    /\ ADMIN_TOKEN # ""
    /\ ~sim_on

\* C11: a stop whose credential was accepted takes the lock, sets the
\* simulation off and answers ok; none of its steps changes the grid, the
\* tick counter, the last-tick timestamp or the load timestamp.
C11_StopFrame ==
  [][\A t \in Threads :
       (op[t] = "stop" /\ pc[t] \in {"stop_lock", "stop_set"} /\ pc'[t] # pc[t]) =>
         /\ UNCHANGED <<grid, tick_count, last_tick_monotonic, last_grid_loaded_at_utc>>
         /\ pc[t] = "stop_lock" => pc'[t] = "stop_set" /\ sim_on' = sim_on
         /\ pc[t] = "stop_set" =>
              /\ ~sim_on'
              /\ pc'[t] = "done"
              /\ resp'[t].status = "ok"]_vars

\* A stop answered ok after ticks were counted: the counter is still there.
C11_Witness ==
  \E t \in Threads :
    /\ op[t] = "stop" /\ pc[t] = "done" /\ resp[t].status = "ok"
    /\ ~sim_on
    /\ tick_count >= 1
    /\ last_tick_monotonic # NeverTicked

\* C12: the order a top-8 snapshot returns is the first 8 entries of the grid
\* as the last whole reload or whole tick left it, never a grid between two
\* swaps of a tick; its 8 drivers are distinct and its positions are 1 to 8.
C12_SnapshotAtBoundary ==
  [][\A t \in Threads :
       (pc[t] = "top8_read" /\ pc'[t] = "done") =>
         LET order == resp'[t].order IN
         /\ resp'[t].status = "live"
         /\ order = Payload(Top8(boundary))
         /\ Len(order) = 8
         /\ \A k \in 1..8 : order[k].position = k
         /\ \A j, k \in 1..8 : j # k => order[j].driver # order[k].driver]_vars

\* A read returned an order that a whole tick produced, while the other
\* thread stands between the swaps of its own tick.
C12_Witness ==
  \E t, u \in Threads :
    /\ op[t] = "positions" /\ pc[t] = "done" /\ resp[t].status = "live"
    /\ resp[t].order # Payload(Top8(loaded))
    /\ pc[u] = "tick_apply" /\ applied[u] = 1 /\ swaps[u] = 1

\* C13: a handler that is inside the provider fetch does not hold the lock:
\* the lock is free or held by another handler.
C13_NoLockAcrossFetch ==
  \A t \in Threads : pc[t] = "egl_fetch" => state_lock # t

\* While one handler is inside the fetch, a stop by another holds the lock.
C13_Witness ==
  \E t, u \in Threads :
    /\ pc[t] = "egl_fetch"
    /\ op[u] = "stop" /\ pc[u] = "stop_set" /\ state_lock = u

\* C14: a thread holds the lock exactly while it stands inside a locked block
\* (every path out of a block releases it and no handler asks for the lock
\* while holding it), and under fair scheduling every started request gets
\* its response.
C14_Terminates ==
  /\ [](\A t \in Threads : state_lock = t <=> pc[t] \in InLock)
  /\ [](state_lock \in Threads \cup {0})
  /\ \A t \in Threads : (pc[t] \notin {"idle", "done"}) ~> (pc[t] = "done")

\* A status request waits for the lock while a read, inside its tick, holds it.
C14_Witness ==
  \E t, u \in Threads :
    /\ op[t] = "status" /\ pc[t] = "status_lock"
    /\ pc[u] = "tick_apply" /\ state_lock = u

\* C15: on every /sim/* route the credential check comes first and decides in
\* this order: no configured secret gives 500, else no header token gives 401,
\* else a token other than the secret gives 403; a rejected request answers at
\* once, changing no simulation state and calling no provider, and a handler
\* runs only with a token equal to the configured secret.
C15_CredentialOrder ==
  /\ [][\A t \in Threads :
         (pc[t] = "idle" /\ pc'[t] # "idle" /\ op'[t] # "positions") =>
           LET tok == x_admin_token'[t]
               Rejected(code) == /\ pc'[t] = "done"
                                 /\ resp'[t].status = code
                                 /\ UNCHANGED <<shared, state_lock, codes>>
           IN  /\ op'[t] \in {"status", "start", "stop", "reset"}
               /\ IF ADMIN_TOKEN = "" THEN Rejected("500")
                  ELSE IF tok = "" THEN Rejected("401")
                  ELSE IF tok # ADMIN_TOKEN THEN Rejected("403")
                  ELSE /\ pc'[t] \in {"status_lock", "stop_lock", "egl_lock1"}
                       /\ resp'[t] = NoResp]_vars
  /\ [](\A t \in Threads :
         (op[t] \in {"status", "start", "stop", "reset"} /\ pc[t] \notin {"idle", "done"}) =>
           ADMIN_TOKEN # "" /\ x_admin_token[t] = ADMIN_TOKEN)

\* A reset with a wrong token was answered 403 while the simulation runs on.
C15_Witness ==
  \E t \in Threads :
    /\ op[t] = "reset" /\ pc[t] = "done" /\ resp[t].status = "403"
    /\ x_admin_token[t] = "wrong"
    /\ sim_on /\ tick_count >= 1

\* C16: the interval check and the mutation it allows are one atomic step
\* with respect to reset: while the last-tick timestamp is the sentinel (a
\* reset completed and no later read has begun its own advance) no tick is
\* counted, since a tick counted then had its check run before the reset.
C16_NoTickAcrossReset ==
  [][\A t \in Threads : TickCounted(t) => last_tick_monotonic # NeverTicked]_vars

\* The grids one adjacent swap away from a grid of gs.
AdjacentSwaps(gs) == UNION {{SwapAt(g, i) : i \in 0..(Len(g) - 2)} : g \in gs}
\* The grids exactly k adjacent swaps away from g, for k up to 2.
SwapsAway(g, k) ==
  IF k = 0 THEN {g}
  ELSE IF k = 1 THEN AdjacentSwaps({g})
  ELSE IF k = 2 THEN AdjacentSwaps(AdjacentSwaps({g}))
  ELSE {}

\* C17: a performed tick has applied s adjacent swaps, s in 0..2, to the grid
\* it found, then adds exactly 1 to the tick counter and stamps the last-tick
\* timestamp; with s = 0 the order is unchanged.  The counter changes in no
\* other way except a reset, which sets it to 0, and is never negative.
C17_TickEffect ==
  /\ [][/\ \A t \in Threads : TickCounted(t) =>
              /\ applied[t] \in 0..2
              /\ grid \in SwapsAway(boundary, applied[t])
              /\ applied[t] = 0 => grid = boundary
              /\ grid' = grid
              /\ tick_count' = tick_count + 1
              /\ last_tick_monotonic' = now
        /\ tick_count' # tick_count =>
              \/ \E t \in Threads : TickCounted(t)
              \/ \E t \in Threads : pc[t] = "reset_set" /\ pc'[t] = "done" /\ tick_count' = 0]_vars
  /\ [](tick_count >= 0)

\* A tick of two swaps is about to be counted, and a tick was counted before.
C17_Witness ==
  \E t \in Threads :
    /\ pc[t] = "tick_apply" /\ swaps[t] = 0 /\ applied[t] = 2
    /\ grid # boundary
    /\ tick_count >= 1

\* C18: on a grid of length n > 3 every swap of a tick exchanges the entries
\* at 0-based positions i and i+1 for some i in 1..n-2, never i = 0; the entry
\* at position 0 of a loaded grid changes only when a reload replaces the grid.
C18_LeaderKept ==
  [][/\ \A t \in Threads :
          (pc[t] = "tick_apply" /\ pc'[t] = "tick_apply" /\ applied'[t] # applied[t]) =>
            /\ Len(grid) > 3
            /\ \E i \in 1..(Len(grid) - 2) : grid' = SwapAt(grid, i)
            /\ grid'[1] = grid[1]
     /\ (grid # <<>> /\ grid'[1] # grid[1]) =>
          \E t \in Threads : pc[t] = "egl_apply" /\ pc'[t] # "egl_apply" /\ grid' = codes[t]]_vars

\* A tick has exchanged the second and third entries; the leader stands.
C18_Witness ==
  \E t \in Threads :
    /\ pc[t] = "tick_apply" /\ applied[t] = 1
    /\ grid = SwapAt(boundary, 1)
    /\ grid[1] = boundary[1]

\* The identifiers of a grid.
Ids(g) == {g[k] : k \in 1..Len(g)}

\* C19: the grid is empty or a permutation of the roster of the latest reload
\* applied (same length, same identifiers, none twice); the identifiers
\* change only when a reload replaces the whole grid by the roster it fetched.
C19_PermutationOfLoaded ==
  /\ [](IF loaded = <<>> THEN grid = <<>>
        ELSE /\ Len(grid) = Len(loaded)
             /\ Ids(grid) = Ids(loaded)
             /\ \A j, k \in 1..Len(grid) : j # k => grid[j] # grid[k])
  /\ [][(Ids(grid') # Ids(grid) \/ Len(grid') # Len(grid) \/ loaded' # loaded) =>
          \E t \in Threads :
            /\ pc[t] = "egl_apply" /\ pc'[t] # "egl_apply"
            /\ grid' = codes[t] /\ loaded' = codes[t]]_vars

\* Two reloads raced with different rosters; the grid is the one applied last.
C19_Witness ==
  \E t, u \in Threads :
    /\ t # u
    /\ pc[t] \in {"start_lock", "start_set", "reset_lock", "reset_set", "done"}
    /\ pc[u] \in {"start_lock", "start_set", "reset_lock", "reset_set", "done"}
    /\ codes[t] # <<>> /\ codes[u] # <<>> /\ codes[t] # codes[u]
    /\ grid = codes[u]

\* C20: no /positions read calls the roster provider: a read that saw the
\* simulation on finds at least MinGrid entries in the grid, so its load is a
\* no-op and it never answers "error"; only start and reset reach the fetch.
C20_ReadsNeverFetch ==
  \A t \in Threads :
    /\ op[t] = "positions" =>
         /\ pc[t] \notin {"egl_fetch", "egl_lock2", "egl_apply"}
         /\ resp[t].status # "error"
         /\ pc[t] \in {"egl_lock1", "egl_need"} => Len(grid) >= MinGrid
    /\ pc[t] \in {"egl_fetch", "egl_lock2", "egl_apply"} => op[t] \in {"start", "reset"}

\* A read went through its load without a fetch while a reset is fetching.
C20_Witness ==
  \E t, u \in Threads :
    /\ op[t] = "positions" /\ pc[t] = "tick_lock1" /\ codes[t] = <<>>
    /\ op[u] = "reset" /\ pc[u] = "egl_fetch"
====
